---- MODULE Spec2Model ----
(***************************************************************************)
(* The Dumper addon of mitmproxy (mitmproxy/addons/dumper.py): the stored  *)
(* filter predicate, the options it reads, and its event handlers, each    *)
(* writing lines to the primary stream (outfp) and the error stream        *)
(* (errfp).                                                                *)
(*                                                                         *)
(* A written line is a record with a kind field.  out and err hold what    *)
(* the handler in progress has written; Return hands control back to the   *)
(* caller, which invokes one handler at a time.                            *)
(***************************************************************************)
EXTENDS Integers, Sequences, FiniteSets, TLC

VARIABLES
    filter,       \* Dumper.filter: None or a compiled predicate
    flow_detail,  \* ctx.options.flow_detail
    pc,           \* "idle": between events; "handled": a handler has run
    ev,           \* the hook that ran and the arguments it was given
    flowAfter,    \* the flow object as the handler left it
    out,          \* lines written to outfp by the handler
    err,          \* lines written to errfp by the handler
    log,          \* ctx.log.debug entries of the handler
    raised,       \* the exception the handler raised, or NoneStr
    matchCalls    \* how often the handler evaluated Dumper.match

vars == <<filter, flow_detail, pc, ev, flowAfter, out, err, log, raised, matchCalls>>

\* Python's None, for an optional object and for an optional string
None == [kind |-> "None"]
NoneStr == "None"

(***************************************************************************)
(* Bounds of the model                                                     *)
(***************************************************************************)
\* longest line sequence the content view returns for a TCP message
MaxLines == 72
\* longest line sequence the content view returns for an HTTP or WebSocket body
MaxBodyLines == 1
\* most messages a WebSocket flow holds
MaxMessages == 2

\* itertools.islice(lines, 70)
PreviewCap == 70

Max(a, b) == IF a >= b THEN a ELSE b

(***************************************************************************)
(* Flows                                                                   *)
(***************************************************************************)
Versions == {"HTTP/1.0", "HTTP/1.1", "HTTP/2.0"}
Methods == {"GET", "POST"}
Peer == <<"127.0.0.1", 1234>>
Server == <<"example.com", 80>>
ClientConns == {None, [kind |-> "Client", peername |-> Peer]}
ServerConn == [kind |-> "Server", address |-> Server]
SomeHeaders == [kind |-> "Headers", fields |-> <<<<"host", "example.com">>>>]
SomeTrailers == [kind |-> "Headers", fields |-> <<<<"x-trailer", "1">>>>]
\* Optional[http.Headers]
TrailerChoices == {None, SomeTrailers}

Requests ==
    [kind : {"Request"}, method : Methods, http_version : Versions,
     headers : {SomeHeaders}, trailers : TrailerChoices]

Responses ==
    [kind : {"Response"}, status_code : {200}, http_version : Versions,
     headers : {SomeHeaders}, trailers : TrailerChoices]

HTTPError == [kind |-> "Error", msg |-> "connection reset"]

\* the flows the response hook is called with
ResponseFlows ==
    [type : {"http"}, client_conn : ClientConns, server_conn : {ServerConn},
     is_replay : {NoneStr, "request", "response"},
     request : Requests, response : Responses, error : {None}]

\* the flows the error hook is called with
ErrorFlows ==
    [type : {"http"}, client_conn : ClientConns, server_conn : {ServerConn},
     is_replay : {NoneStr, "request", "response"},
     request : Requests, response : Responses \cup {None}, error : {HTTPError}]
    \cup
    [type : {"http"}, client_conn : ClientConns, server_conn : {ServerConn},
     is_replay : {NoneStr}, request : {None}, response : {None},
     error : {HTTPError}]

\* a message content: text (str) or bytes
Contents == [type : {"str", "bytes"}, data : {"hi"}]

WSMessages == [kind : {"WebSocketMessage"}, from_client : BOOLEAN, content : Contents]

SeqsUpTo(S, n) == UNION {[1..k -> S] : k \in 0..n}

WebSocketFlows ==
    [type : {"websocket"}, client_conn : {[kind |-> "Client", peername |-> Peer]},
     server_conn : {ServerConn},
     messages : SeqsUpTo(WSMessages, MaxMessages) \ {<<>>},
     close_sender : {"client"}, close_code : {1000},
     close_message : {"bye"}, close_reason : {"normal"},
     error : {NoneStr, "ws failure"}]

TCPMessages ==
    [kind : {"TCPMessage"}, from_client : BOOLEAN,
     content : {[type |-> "bytes", data |-> "hi"]}]

TCPFlows ==
    [type : {"tcp"}, client_conn : {[kind |-> "Client", peername |-> Peer]},
     server_conn : {ServerConn},
     messages : {<<m>> : m \in TCPMessages},
     error : {NoneStr, "tcp failure"}]

(***************************************************************************)
(* What contentviews.get_message_content_view returns: the lines (each a   *)
(* sequence of (style, text) tokens) and an optional error.                *)
(***************************************************************************)
TextLine == <<<<"text", "a">>>>
NoTokenLine == <<>>

\* n lines of text, the e-th one (if any) without tokens
LinesWith(n, e) == [i \in 1..n |-> IF i = e THEN NoTokenLine ELSE TextLine]

ViewErrors == {NoneStr, "Couldn't parse: falling back to Raw"}

TCPViews ==
    UNION {{[lines |-> LinesWith(n, e), error |-> NoneStr] : e \in 0..n} : n \in 0..MaxLines}
    \cup {[lines |-> <<>>, error |-> x] : x \in ViewErrors}

\* stands for the view when the handler never asks for one
NoView == [lines |-> <<>>, error |-> NoneStr]

BodyViews ==
    [lines : SeqsUpTo({TextLine, NoTokenLine}, MaxBodyLines), error : ViewErrors]

(***************************************************************************)
(* Collaborators of the Dumper that live in other modules of mitmproxy     *)
(***************************************************************************)
\* flowfilter.parse: the compiled predicate, or None for a malformed expression
parse(expr) ==
    CASE expr = "~m GET" -> [kind |-> "Filter", op |-> "m", arg |-> "GET"]
      [] expr = "~tcp" -> [kind |-> "Filter", op |-> "tcp", arg |-> ""]
      [] expr = "~websocket" -> [kind |-> "Filter", op |-> "websocket", arg |-> ""]
      [] OTHER -> None

\* flowfilter.match: the predicate evaluated on a flow
flowfilter_match(p, f) ==
    CASE p.op = "m" -> f.type = "http" /\ f.request # None /\ f.request.method = p.arg
      [] p.op = "tcp" -> f.type = "tcp"
      [] p.op = "websocket" -> f.type = "websocket"
      [] OTHER -> FALSE

\* human.format_address: "host:port"
format_address(address) == address[1] \o ":" \o ToString(address[2])

\* http.Message.is_http10, is_http11
is_http10(message) == message.http_version = "HTTP/1.0"
is_http11(message) == message.http_version = "HTTP/1.1"

\* WebSocketMessage.from_state(message.get_state()): a new message object
\* holding the same field values
from_state(state) == state
get_state(message) == message

\* str.encode(): the bytes of a text
encode(content) == [content EXCEPT !.type = "bytes"]

(***************************************************************************)
(* Dumper: what a rendering step writes.  A step yields the lines it wrote *)
(* to outfp, its debug log entries, and the exception that ended it (or    *)
(* NoneStr); Then runs a second step unless the first one raised.          *)
(***************************************************************************)
Ok(lines) == [out |-> lines, log |-> <<>>, raised |-> NoneStr]
Raise(exc) == [out |-> <<>>, log |-> <<>>, raised |-> exc]
Then(a, b) ==
    IF a.raised # NoneStr THEN a
    ELSE [out |-> a.out \o b.out, log |-> a.log \o b.log, raised |-> b.raised]
Skip == Ok(<<>>)

\* Dumper.echo("")
Blank == [kind |-> "blank"]

\* Dumper._echo_headers: one line per field, indented by 4
_echo_headers(headers) ==
    Ok([i \in 1..Len(headers.fields) |->
          [kind |-> "header", ident |-> 4,
           k |-> headers.fields[i][1], v |-> headers.fields[i][2]]])

\* Dumper._echo_trailers
_echo_trailers(trailers) ==
    IF trailers = None \/ Len(trailers.fields) = 0 THEN Skip
    ELSE Then(Ok(<<[kind |-> "trailers_banner", ident |-> 4]>>), _echo_headers(trailers))

\* "".join(colorful(line, styles)): the indent, then the text of every token
RECURSIVE TokenText(_)
TokenText(line) ==
    IF line = <<>> THEN "" ELSE Head(line)[2] \o TokenText(Tail(line))
colorful(line) == "    " \o TokenText(line)

\* len("\r\n".join(rows))
RECURSIVE JoinLen(_)
JoinLen(rows) ==
    IF rows = <<>> THEN 0
    ELSE Len(Head(rows)) + (IF Len(rows) > 1 THEN 2 ELSE 0) + JoinLen(Tail(rows))

\* itertools.islice(lines, n) run to its end: what it yields, and what the
\* iterator lines still holds afterwards
Take(lines, n) == SubSeq(lines, 1, IF Len(lines) < n THEN Len(lines) ELSE n)
Drop(lines, n) == SubSeq(lines, n + 1, Len(lines))

\* bool(next(lines, None)): a line is a list, true when it has a token
NextIsTruthy(rest) == rest # <<>> /\ Len(Head(rest)) > 0

\* faulty variant of _echo_message: the blank line and the content are
\* written without the test "if content"
_echo_message_unguarded(view, detail) ==
    LET lines_to_echo == IF detail = 3 THEN Take(view.lines, PreviewCap) ELSE view.lines
        rest == IF detail = 3 THEN Drop(view.lines, PreviewCap) ELSE <<>>
        rows == [i \in 1..Len(lines_to_echo) |-> colorful(lines_to_echo[i])]
    IN  [out |-> <<Blank, [kind |-> "content", rows |-> rows]>>
                 \o (IF NextIsTruthy(rest)
                     THEN <<[kind |-> "cut_off", ident |-> 4]>>
                     ELSE <<>>)
                 \o (IF detail >= 2 THEN <<Blank>> ELSE <<>>),
         log |-> IF view.error # NoneStr THEN <<view.error>> ELSE <<>>,
         raised |-> NoneStr]

\* Dumper._echo_message, given what the content view returned
_echo_message(view, detail) ==
    LET lines_to_echo == IF detail = 3 THEN Take(view.lines, PreviewCap) ELSE view.lines
        rest == IF detail = 3 THEN Drop(view.lines, PreviewCap) ELSE <<>>
        rows == [i \in 1..Len(lines_to_echo) |-> colorful(lines_to_echo[i])]
    IN  [out |-> (IF JoinLen(rows) > 0
                  THEN <<Blank, [kind |-> "content", rows |-> rows]>>
                  ELSE <<>>)
                 \o (IF NextIsTruthy(rest)
                     THEN <<[kind |-> "cut_off", ident |-> 4]>>
                     ELSE <<>>)
                 \o (IF detail >= 2 THEN <<Blank>> ELSE <<>>),
         log |-> IF view.error # NoneStr THEN <<view.error>> ELSE <<>>,
         raised |-> NoneStr]

\* faulty variant of _echo_request_line: the request version is compared with
\* "HTTP/1.1" even when the flow has a response
_echo_request_line_default_only(flow, detail) ==
    LET client == IF flow.client_conn # None
                  THEN format_address(flow.client_conn.peername)
                  ELSE IF flow.is_replay = "request" THEN "[replay]" ELSE ""
        http_version ==
            IF \/ ~(is_http10(flow.request) \/ is_http11(flow.request))
               \/ flow.request.http_version # "HTTP/1.1"
            THEN " " \o flow.request.http_version
            ELSE ""
    IN  Ok(<<[kind |-> "request_line", client |-> client,
              method |-> flow.request.method, http_version |-> http_version]>>)

\* Dumper._echo_request_line (the URL is left out of the line)
_echo_request_line(flow, detail) ==
    LET client == IF flow.client_conn # None
                  THEN format_address(flow.client_conn.peername)
                  ELSE IF flow.is_replay = "request" THEN "[replay]" ELSE ""
        response_version == IF flow.response # None
                            THEN flow.response.http_version ELSE "HTTP/1.1"
        http_version ==
            IF \/ ~(is_http10(flow.request) \/ is_http11(flow.request))
               \/ flow.request.http_version # response_version
            THEN " " \o flow.request.http_version
            ELSE ""
    IN  Ok(<<[kind |-> "request_line", client |-> client,
              method |-> flow.request.method, http_version |-> http_version]>>)

\* Dumper._echo_response_line (reason and size are left out of the line).
\* Reading an attribute of None raises AttributeError.
_echo_response_line(flow, detail) ==
    LET replay_str == IF flow.is_replay = "response" THEN "[replay]" ELSE ""
        h1 == is_http10(flow.response) \/ is_http11(flow.response)
        http_version ==
            IF ~h1 \/ flow.request.http_version # flow.response.http_version
            THEN flow.response.http_version \o " "
            ELSE ""
        pad == Max(0, Len(format_address(flow.client_conn.peername))
                      - (2 + Len(http_version) + Len(replay_str)))
    IN  IF flow.response = None THEN Raise("AssertionError")
        ELSE IF h1 /\ flow.request = None THEN Raise("AttributeError")
        ELSE IF detail = 1 /\ flow.client_conn = None THEN Raise("AttributeError")
        ELSE Ok(<<[kind |-> "response_line", replay |-> replay_str,
                   pad |-> IF detail = 1 THEN pad ELSE 0,
                   http_version |-> http_version,
                   code |-> flow.response.status_code]>>)

When(cond, step) == IF cond THEN step ELSE Skip

\* Dumper.echo_flow, given the content views of the request and the response
echo_flow(f, detail, reqView, respView) ==
    LET request_block ==
            Then(_echo_request_line(f, detail),
            Then(When(detail >= 2, _echo_headers(f.request.headers)),
            Then(When(detail >= 3, _echo_message(reqView, detail)),
                 When(detail >= 2, _echo_trailers(f.request.trailers)))))
        response_block ==
            Then(_echo_response_line(f, detail),
            Then(When(detail >= 2, _echo_headers(f.response.headers)),
            Then(When(detail >= 3, _echo_message(respView, detail)),
                 When(detail >= 2, _echo_trailers(f.response.trailers)))))
        error_block == Ok(<<[kind |-> "error_line", msg |-> f.error.msg]>>)
    IN  Then(When(f.request # None, request_block),
        Then(When(f.response # None, response_block),
             When(f.error # None, error_block)))

\* faulty variant of match: the test of flow_detail = 0 is missing
match_without_quiet(pred, detail, f) ==
    IF pred = None THEN TRUE
    ELSE IF flowfilter_match(pred, f) THEN TRUE
    ELSE FALSE

\* Dumper.match
match(pred, detail, f) ==
    IF detail = 0 THEN FALSE
    ELSE IF pred = None THEN TRUE
    ELSE IF flowfilter_match(pred, f) THEN TRUE
    ELSE FALSE

(***************************************************************************)
(* Dumper: the hooks.  Each yields what it wrote to outfp and errfp, its   *)
(* log entries, the exception it raised, the flow as it leaves it, and the *)
(* results of its calls of Dumper.match.                                   *)
(***************************************************************************)
Outcome(step, errLines, flow, calls) ==
    [out |-> step.out, err |-> errLines, log |-> step.log, raised |-> step.raised,
     flow |-> flow, matchCalls |-> calls]

\* Dumper.response
response(pred, detail, f, reqView, respView) ==
    LET m == match(pred, detail, f)
    IN  Outcome(When(m, echo_flow(f, detail, reqView, respView)), <<>>, f, <<m>>)

\* Dumper.error
error(pred, detail, f, reqView, respView) ==
    LET m == match(pred, detail, f)
    IN  Outcome(When(m, echo_flow(f, detail, reqView, respView)), <<>>, f, <<m>>)

\* the line Dumper.websocket_error and Dumper.tcp_error write to errfp
ErrorLine(protocol, f) ==
    [kind |-> "connection_error", protocol |-> protocol,
     server |-> format_address(f.server_conn.address), error |-> f.error]

\* Dumper.websocket_error
websocket_error(pred, detail, f) ==
    Outcome(Skip, <<ErrorLine("WebSocket", f)>>, f, <<>>)

\* faulty variant of normalize: the content of the flow's own message is
\* replaced, no copy is made
normalize_in_place(f) ==
    LET n == Len(f.messages)
        message == f.messages[n]
        encoded == [message EXCEPT !.content =
                       IF message.content.type = "str"
                       THEN encode(message.content) ELSE message.content]
    IN  [flow |-> [f EXCEPT !.messages[n] = encoded], message |-> encoded]

\* Dumper.websocket_message, lines 293-294: the message handed to the content
\* view is a copy whose text content is encoded; the flow keeps its message
normalize(f) ==
    LET message == f.messages[Len(f.messages)]
        copy == from_state(get_state(message))
    IN  [flow |-> f,
         message |-> [copy EXCEPT !.content =
                         IF copy.content.type = "str"
                         THEN encode(copy.content) ELSE copy.content]]

\* Dumper.websocket_message
websocket_message(pred, detail, f, view) ==
    LET m == match(pred, detail, f)
        message == f.messages[Len(f.messages)]
        info == Ok(<<[kind |-> "message_info", from_client |-> message.from_client]>>)
        n == normalize(f)
    IN  IF ~m THEN Outcome(Skip, <<>>, f, <<m>>)
        ELSE IF detail >= 3
        THEN Outcome(Then(info, _echo_message(view, detail)), <<>>, n.flow, <<m>>)
        ELSE Outcome(info, <<>>, f, <<m>>)

\* faulty variant of websocket_end: the line is written without asking match
websocket_end_ungated(pred, detail, f) ==
    LET m == match(pred, detail, f)
        line == [kind |-> "websocket_closed", sender |-> f.close_sender,
                 code |-> f.close_code, message |-> f.close_message,
                 reason |-> f.close_reason]
    IN  Outcome(Ok(<<line>>), <<>>, f, <<m>>)

\* Dumper.websocket_end
websocket_end(pred, detail, f) ==
    LET m == match(pred, detail, f)
        line == [kind |-> "websocket_closed", sender |-> f.close_sender,
                 code |-> f.close_code, message |-> f.close_message,
                 reason |-> f.close_reason]
    IN  Outcome(When(m, Ok(<<line>>)), <<>>, f, <<m>>)

\* Dumper.tcp_error
tcp_error(pred, detail, f) ==
    LET m == match(pred, detail, f)
    IN  Outcome(Skip, IF m THEN <<ErrorLine("TCP", f)>> ELSE <<>>, f, <<m>>)

\* Dumper.tcp_message
tcp_message(pred, detail, f, view) ==
    LET m == match(pred, detail, f)
        message == f.messages[Len(f.messages)]
        direction == IF message.from_client THEN "->" ELSE "<-"
        line == [kind |-> "tcp_message",
                 client |-> format_address(f.client_conn.peername),
                 server |-> format_address(f.server_conn.address),
                 direction |-> direction]
    IN  Outcome(When(m, Then(Ok(<<line>>),
                             When(detail >= 3, _echo_message(view, detail)))),
                <<>>, f, <<m>>)

\* Dumper.configure, with ctx.options.dumper_filter = expr: the stored
\* predicate afterwards and the exception raised
configure(pred, updated, expr) ==
    IF "dumper_filter" \in updated
    THEN IF expr # NoneStr /\ expr # ""
         THEN LET p == parse(expr)
              IN  [filter |-> p,
                   raised |-> IF p = None
                              THEN "OptionsError: Invalid filter expression: " \o expr
                              ELSE NoneStr]
         ELSE [filter |-> None, raised |-> NoneStr]
    ELSE [filter |-> pred, raised |-> NoneStr]

(***************************************************************************)
(* The state machine: the caller invokes one hook at a time                *)
(***************************************************************************)
OptionNames == {"flow_detail", "dumper_filter"}
Details == 0..4
FilterExprs == {NoneStr, "", "~m GET", "~tcp", "~websocket", "~m"}

NoEvent == [hook |-> "none"]

Init ==
    /\ filter = None
    /\ flow_detail = 1
    /\ pc = "idle"
    /\ ev = NoEvent
    /\ flowAfter = None
    /\ out = <<>>
    /\ err = <<>>
    /\ log = <<>>
    /\ raised = NoneStr
    /\ matchCalls = <<>>

\* the views the content view may return, when the hook asks for one
Asked(cond, views) == IF cond THEN views ELSE {NoView}

\* a hook ran on flow f and ended as r
Handled(hook, f, views, r) ==
    /\ pc' = "handled"
    /\ ev' = [hook |-> hook, flow |-> f, views |-> views]
    /\ flowAfter' = r.flow
    /\ out' = r.out
    /\ err' = r.err
    /\ log' = r.log
    /\ raised' = r.raised
    /\ matchCalls' = r.matchCalls
    /\ UNCHANGED <<filter, flow_detail>>

Response ==
    /\ pc = "idle"
    /\ \E f \in ResponseFlows :
       LET asks == match(filter, flow_detail, f) /\ flow_detail >= 3
       IN  \E rv \in Asked(asks, BodyViews), sv \in Asked(asks, BodyViews) :
              Handled("response", f, <<rv, sv>>, response(filter, flow_detail, f, rv, sv))

Error ==
    /\ pc = "idle"
    /\ \E f \in ErrorFlows :
       LET asks == match(filter, flow_detail, f) /\ flow_detail >= 3
       IN  \E rv \in Asked(asks /\ f.request # None, BodyViews),
              sv \in Asked(asks /\ f.response # None, BodyViews) :
              Handled("error", f, <<rv, sv>>, error(filter, flow_detail, f, rv, sv))

WebsocketError ==
    /\ pc = "idle"
    /\ \E f \in {g \in WebSocketFlows : g.error # NoneStr} :
          Handled("websocket_error", f, <<>>, websocket_error(filter, flow_detail, f))

WebsocketMessage ==
    /\ pc = "idle"
    /\ \E f \in WebSocketFlows :
       \E v \in Asked(match(filter, flow_detail, f) /\ flow_detail >= 3, BodyViews) :
          Handled("websocket_message", f, <<v>>, websocket_message(filter, flow_detail, f, v))

WebsocketEnd ==
    /\ pc = "idle"
    /\ \E f \in WebSocketFlows :
          Handled("websocket_end", f, <<>>, websocket_end(filter, flow_detail, f))

TcpError ==
    /\ pc = "idle"
    /\ \E f \in {g \in TCPFlows : g.error # NoneStr} :
          Handled("tcp_error", f, <<>>, tcp_error(filter, flow_detail, f))

TcpMessage ==
    /\ pc = "idle"
    /\ \E f \in TCPFlows :
       \E v \in Asked(match(filter, flow_detail, f) /\ flow_detail >= 3, TCPViews) :
          Handled("tcp_message", f, <<v>>, tcp_message(filter, flow_detail, f, v))

\* the value of an option after an update: a rejected update leaves it as it was
OptionAfterUpdate(exc, old, new) == IF exc # NoneStr THEN old ELSE new

\* an options update naming the options in updated; Dumper.configure runs
\* with the new values in ctx.options, and an update that raises is rejected:
\* the options keep their old values
Configure ==
    /\ pc = "idle"
    /\ \E updated \in (SUBSET OptionNames) \ {{}} :
       \E d \in (IF "flow_detail" \in updated THEN Details ELSE {flow_detail}),
          e \in (IF "dumper_filter" \in updated THEN FilterExprs ELSE {NoneStr}) :
          LET r == configure(filter, updated, e)
          IN  /\ filter' = r.filter
              /\ flow_detail' = OptionAfterUpdate(r.raised, flow_detail, d)
              /\ raised' = r.raised
              /\ ev' = [hook |-> "configure", updated |-> updated,
                        flow_detail |-> d, dumper_filter |-> e,
                        before |-> [filter |-> filter, flow_detail |-> flow_detail]]
              /\ pc' = "handled"
              /\ flowAfter' = None
              /\ out' = <<>>
              /\ err' = <<>>
              /\ log' = <<>>
              /\ matchCalls' = <<>>

\* the hook returns to its caller
Return ==
    /\ pc = "handled"
    /\ pc' = "idle"
    /\ ev' = NoEvent
    /\ flowAfter' = None
    /\ out' = <<>>
    /\ err' = <<>>
    /\ log' = <<>>
    /\ raised' = NoneStr
    /\ matchCalls' = <<>>
    /\ UNCHANGED <<filter, flow_detail>>

Next ==
    \/ Response
    \/ Error
    \/ WebsocketError
    \/ WebsocketMessage
    \/ WebsocketEnd
    \/ TcpError
    \/ TcpMessage
    \/ Configure
    \/ Return

Spec == Init /\ [][Next]_vars

(***************************************************************************)
(* Vocabulary of the properties                                            *)
(***************************************************************************)
HttpHooks == {"response", "error"}
GatedHooks == {"response", "error", "websocket_message", "websocket_end", "tcp_message"}
HandlerHooks == GatedHooks \cup {"websocket_error", "tcp_error"}

Ran(hooks) == pc = "handled" /\ ev.hook \in hooks

\* the eligibility rule as section 4.1 of the specification words it
Eligible(pred, detail, f) ==
    detail # 0 /\ (pred = None \/ flowfilter_match(pred, f))

KindsOf(lines) == [i \in 1..Len(lines) |-> lines[i].kind]
Count(lines, kind) == Len(SelectSeq(lines, LAMBDA l : l.kind = kind))
Rep(kind, n) == [i \in 1..n |-> kind]
IndexOf(lines, kind) == CHOOSE i \in 1..Len(lines) : lines[i].kind = kind

(***************************************************************************)
(* C1  Every WebSocket error event and every TCP error event writes exactly *)
(* one error line to errfp, whatever the verbosity and the filter.         *)
(***************************************************************************)
\* C1: an error hook always writes its one error line to errfp
C1_ErrorAlwaysReported ==
    Ran({"websocket_error", "tcp_error"}) =>
        /\ Len(err) = 1
        /\ err[1].kind = "connection_error"
        /\ err[1].protocol = (IF ev.hook = "tcp_error" THEN "TCP" ELSE "WebSocket")
        /\ err[1].error = ev.flow.error

(***************************************************************************)
(* C2  A configuration update with a malformed dumper_filter raises, and   *)
(* afterwards the stored predicate is the one stored before the update.    *)
(***************************************************************************)
\* C2: a rejected update leaves the stored predicate as it was
C2_FailedUpdateKeepsPredicate ==
    (Ran({"configure"}) /\ raised # NoneStr) => filter = ev.before.filter

HeaderKinds(headers) == Rep("header", Len(headers.fields))
TrailerKinds(trailers) ==
    IF trailers = None THEN <<>> ELSE <<"trailers_banner">> \o HeaderKinds(trailers)
MessageKinds(first, message, body, detail) ==
    <<first>>
    \o (IF detail >= 2 THEN HeaderKinds(message.headers) ELSE <<>>)
    \o (IF detail >= 3 THEN body ELSE <<>>)
    \o (IF detail >= 2 THEN TrailerKinds(message.trailers) ELSE <<>>)
FlowKinds(f, detail, reqBody, respBody) ==
    (IF f.request # None
     THEN MessageKinds("request_line", f.request, reqBody, detail) ELSE <<>>)
    \o (IF f.response # None
        THEN MessageKinds("response_line", f.response, respBody, detail) ELSE <<>>)
    \o (IF f.error # None THEN <<"error_line">> ELSE <<>>)

PreviewKinds(view, detail) == KindsOf(_echo_message(view, detail).out)

\* C5: the kinds of the written lines are the gated blocks in order
C5_BlocksInOrder ==
    (Ran(HttpHooks) /\ matchCalls = <<TRUE>>) =>
        KindsOf(out) = FlowKinds(ev.flow, flow_detail,
                                 PreviewKinds(ev.views[1], flow_detail),
                                 PreviewKinds(ev.views[2], flow_detail))

(***************************************************************************)
(* C6  Of N lines the body preview shows the first min(N, 70) at verbosity *)
(* 3, with the "(cut off)" marker exactly when N > 70, and all N without   *)
(* the marker at verbosity 4.                                              *)
(***************************************************************************)
RowsShown(lines) ==
    IF Count(lines, "content") = 0 THEN <<>>
    ELSE lines[IndexOf(lines, "content")].rows

\* C6: min(N, 70) lines and the marker iff N > 70 at 3; all N lines at 4
C6_PreviewCap ==
    (Ran({"tcp_message"}) /\ matchCalls = <<TRUE>> /\ flow_detail >= 3) =>
        LET given == ev.views[1].lines
            N == Len(given)
            shown == IF flow_detail = 3 /\ N > PreviewCap THEN PreviewCap ELSE N
        IN  /\ RowsShown(out) = [i \in 1..shown |-> colorful(given[i])]
            /\ Count(out, "cut_off") = (IF flow_detail = 3 /\ N > PreviewCap THEN 1 ELSE 0)

\* C7 as worded: an empty preview writes no line at all, so after the
\* message line nothing follows
C7_EmptyPreviewWritesNothing ==
    (/\ Ran({"tcp_message", "websocket_message"})
     /\ matchCalls = <<TRUE>>
     /\ flow_detail >= 3
     /\ ev.views[1].lines = <<>>) => Len(out) = 1

(***************************************************************************)
(* C7  When the content view yields no lines (with or without a render     *)
(* error) the body preview writes no content line, no "(cut off)" marker   *)
(* and no leading blank line: all it writes is the one blank line that     *)
(* closes every preview.  The render error is logged, the hook does not    *)
(* raise, and the remaining blocks of the flow are written.                *)
(***************************************************************************)
EmptyAwareKinds(view, detail) ==
    IF view.lines = <<>> THEN <<"blank">> ELSE PreviewKinds(view, detail)
ErrorsOf(views) ==
    LET logged == SelectSeq(views, LAMBDA v : v.error # NoneStr)
    IN  [i \in 1..Len(logged) |-> logged[i].error]

\* C7 (amended): an empty preview writes its closing blank line only
C7_EmptyPreviewWritesOnlySeparator ==
    /\ (/\ Ran({"tcp_message", "websocket_message"})
        /\ matchCalls = <<TRUE>>
        /\ flow_detail >= 3
        /\ ev.views[1].lines = <<>>) =>
           /\ raised = NoneStr
           /\ KindsOf(out) = <<IF ev.hook = "tcp_message"
                               THEN "tcp_message" ELSE "message_info", "blank">>
           /\ log = ErrorsOf(ev.views)
    /\ (/\ Ran(HttpHooks)
        /\ matchCalls = <<TRUE>>
        /\ flow_detail >= 3) =>
           /\ raised = NoneStr
           /\ KindsOf(out) = FlowKinds(ev.flow, flow_detail,
                                       EmptyAwareKinds(ev.views[1], flow_detail),
                                       EmptyAwareKinds(ev.views[2], flow_detail))
           /\ log = ErrorsOf(ev.views)

C7_Witness ==
    /\ Ran({"response"})
    /\ matchCalls = <<TRUE>>
    /\ flow_detail = 3
    /\ ev.views[1].lines = <<>>
    /\ ev.views[1].error # NoneStr
    /\ ev.views[2].lines # <<>>
    /\ ev.flow.request.trailers # None
    /\ Count(out, "content") = 1
    /\ Count(out, "response_line") = 1

(***************************************************************************)
(* C8  The request line shows the HTTP version exactly when the request is *)
(* neither HTTP/1.0 nor HTTP/1.1 or its version differs from the           *)
(* response's ("HTTP/1.1" without a response); the response line follows   *)
(* the same rule.  With both lines written, one shows a version iff the    *)
(* other does, and a flow of one HTTP/1.x version shows none.              *)
(***************************************************************************)
H1 == {"HTTP/1.0", "HTTP/1.1"}
RequestShowsVersion(f) ==
    \/ f.request.http_version \notin H1
    \/ f.request.http_version #
           (IF f.response = None THEN "HTTP/1.1" ELSE f.response.http_version)
ResponseShowsVersion(f) ==
    \/ f.response.http_version \notin H1
    \/ f.request.http_version # f.response.http_version

\* C8: the version appears on either line exactly under the rule
C8_VersionShown ==
    Ran(HttpHooks) =>
        /\ \A i \in 1..Len(out) :
              /\ out[i].kind = "request_line" =>
                    out[i].http_version =
                        (IF RequestShowsVersion(ev.flow)
                         THEN " " \o ev.flow.request.http_version ELSE "")
              /\ out[i].kind = "response_line" =>
                    out[i].http_version =
                        (IF ResponseShowsVersion(ev.flow)
                         THEN ev.flow.response.http_version \o " " ELSE "")
        /\ (Count(out, "request_line") = 1 /\ Count(out, "response_line") = 1) =>
              LET req == out[IndexOf(out, "request_line")]
                  resp == out[IndexOf(out, "response_line")]
              IN  /\ (req.http_version # "") <=> (resp.http_version # "")
                  /\ (/\ ev.flow.request.http_version \in H1
                      /\ ev.flow.request.http_version = ev.flow.response.http_version)
                         => (req.http_version = "" /\ resp.http_version = "")

C8_Witness ==
    /\ Ran({"response"})
    /\ ev.flow.request.http_version = "HTTP/1.0"
    /\ ev.flow.response.http_version = "HTTP/1.0"
    /\ Count(out, "request_line") = 1
    /\ Count(out, "response_line") = 1
    /\ out[IndexOf(out, "request_line")].http_version = ""
    /\ out[IndexOf(out, "response_line")].http_version = ""

(***************************************************************************)
(* C9  No hook changes the stored predicate, the verbosity or the flow it  *)
(* is given (the WebSocket message hook leaves the content of the flow's   *)
(* last message as it was); a configuration update that does not name      *)
(* dumper_filter leaves the predicate unchanged.                           *)
(***************************************************************************)
\* C9: hooks leave predicate, verbosity and flow unchanged
C9_HooksOnlyRead ==
    [][(pc = "idle" /\ pc' = "handled") =>
          /\ ev'.hook \in HandlerHooks =>
                /\ filter' = filter
                /\ flow_detail' = flow_detail
                /\ flowAfter' = ev'.flow
          /\ (ev'.hook = "configure" /\ "dumper_filter" \notin ev'.updated) =>
                filter' = filter]_vars

C9_Witness ==
    /\ Ran({"websocket_message"})
    /\ matchCalls = <<TRUE>>
    /\ flow_detail >= 3
    /\ filter # None
    /\ ev.flow.messages[Len(ev.flow.messages)].content.type = "str"
    /\ flowAfter = ev.flow

(***************************************************************************)
(* C10  For an HTTP flow that passes the filter and has a request and a    *)
(* response the hook writes the request line and the response line and     *)
(* does not raise, at every verbosity 1-4, with or without a client        *)
(* connection.                                                             *)
(***************************************************************************)
\* C10: request line and response line are written and nothing is raised
C10_BothLinesRendered ==
    (/\ Ran(HttpHooks)
     /\ matchCalls = <<TRUE>>
     /\ ev.flow.request # None
     /\ ev.flow.response # None) =>
        /\ raised = NoneStr
        /\ Count(out, "request_line") = 1
        /\ Count(out, "response_line") = 1

====
